---- MODULE Spec2Model ----
(***************************************************************************)
(* HOSPlanner (src/tripplanner/hos.py): the Hours-of-Service trip planner. *)
(*                                                                         *)
(* Wall-clock instants are whole minutes counted from midnight of day 0;   *)
(* the calendar date of an instant t is t \div 1440.  Float inputs         *)
(* (duration_hr, current_cycle_used_hours) are carried as a whole number   *)
(* of eighths of an hour, which are exact binary floats, so that           *)
(* int(round(x * 60)) is the round-half-to-even of an exact value.         *)
(* distance_mi is a whole number of miles.                                 *)
(***************************************************************************)
EXTENDS Integers, Sequences, FiniteSets, TLC

\* ---- bounds of the input space ------------------------------------------
\* duration_hr ranges over 0/8 .. MaxDurEighths/8 hours
MaxDurEighths == 144
\* distance_mi ranges over 0, 500, .. 500 * MaxDistHalfK miles
MaxDistHalfK == 4
\* current_cycle_used_hours ranges over 0 and 70 - MaxCycleBack .. 70 hours
MaxCycleBack == 2
\* pre_pickup_drive_min ranges over 0, 130, .. 130 * MaxPrePickupSlot minutes
MaxPrePickupSlot == 5
\* start_dt ranges over 08:00 + 6.5 h * (0 .. MaxStartSlot) of day 0
MaxStartSlot == 2
\* plan() is called at most MaxCalls times on one planner
MaxCalls == 2
\* infeasible inputs lie 1 .. MaxInfeasible steps outside the feasible range
MaxInfeasible == 2

\* ---- duty status constants (hos.py 6-9) ----------------------------------
OFF == "off"
SLEEPER == "sleeper"
DRIVING == "driving"
ON_DUTY == "on_duty"

\* ---- HOS constants, minutes (hos.py 68-78) -------------------------------
DAY_WINDOW_MIN == 14 * 60
DAY_DRIVE_MAX_MIN == 11 * 60
BREAK_AFTER_DRIVE_MIN == 8 * 60
BREAK_BLOCK_MIN == 30
OFF_DUTY_RESET_MIN == 10 * 60
CYCLE_MAX_MIN == 70 * 60
CYCLE_RESET_MIN == 34 * 60
fuel_every_miles == 1000
fuel_block_min == 30

VARIABLES
    duration_hr,                \* constructor argument, in eighths of an hour
    current_cycle_used_hours,   \* constructor argument, in eighths of an hour
    distance_mi,                \* self.distance_mi
    duration_min,               \* self.duration_min
    cycle_used_min,             \* self.cycle_used_min (mutated by plan)
    start_dt,                   \* self.start_dt
    pre_pickup_drive_min,       \* self.pre_pickup_drive_min
    pc,                         \* position in plan(): "new", "loop", "done"
    segments,                   \* plan local: emitted segments
    stops,                      \* plan local: emitted stops
    cursor,
    driving_left_min,
    driven_min,
    drive_since_break_min,
    fuel_drive_threshold_mins,
    day_window_used,
    day_drive_used,
    pickup_done,
    days,                       \* plan result: grouped day plans
    stops_sorted,               \* plan result: stops sorted by eta
    returned                    \* what the calls of plan() returned, in call order

vars == <<duration_hr, current_cycle_used_hours, distance_mi, duration_min,
          cycle_used_min, start_dt, pre_pickup_drive_min, pc, segments, stops,
          cursor, driving_left_min, driven_min, drive_since_break_min,
          fuel_drive_threshold_mins, day_window_used, day_drive_used,
          pickup_done, days, stops_sorted, returned>>

inputs == <<duration_hr, current_cycle_used_hours, distance_mi, duration_min,
            start_dt, pre_pickup_drive_min>>

\* ---- arithmetic helpers ---------------------------------------------------
Min2(a, b) == IF a <= b THEN a ELSE b
Max2(a, b) == IF a >= b THEN a ELSE b

\* Python 3 round() of the exact non-negative rational n/d: nearest integer,
\* ties to the even neighbour.
RoundHalfEven(n, d) ==
    LET q == n \div d
        r == n % d
    IN  IF 2 * r < d THEN q
        ELSE IF 2 * r > d THEN q + 1
        ELSE IF q % 2 = 0 THEN q ELSE q + 1

\* int(round(x * 60)) for x given in eighths of an hour (hos.py 61-62)
MinutesOfHours(eighths) == RoundHalfEven(eighths * 60, 8)

\* ---- Segment / Stop (hos.py 11-52) ---------------------------------------
Segment(start, minutes, status, label) ==
    [start |-> start, end |-> start + minutes, status |-> status, label |-> label]

StopLabels == {"Pickup", "Drop", "Fuel", "30m Break"}

StopType(label) ==
    CASE label = "30m Break" -> "break"
      [] label = "Pickup" -> "pickup"
      [] label = "Drop" -> "drop"
      [] label = "Fuel" -> "fuel"

Stop(label, eta, minutes) ==
    [type |-> StopType(label), eta |-> eta, duration_min |-> minutes]

\* add_segment (hos.py 84-92): the three effects of one call, given the
\* values before the call.
SegmentsAfterAdd(segs, start, minutes, status, label) ==
    Append(segs, Segment(start, minutes, status, label))

CycleAfterAdd(cycle, minutes, status) ==
    IF status \in {DRIVING, ON_DUTY} THEN cycle + minutes ELSE cycle

StopsAfterAdd(stps, start, minutes, label) ==
    IF label \in StopLabels THEN Append(stps, Stop(label, start, minutes)) ELSE stps

\* start_new_day (hos.py 114-115): current.replace(hour=8, minute=0, ...)
start_new_day(current) == (current \div 1440) * 1440 + 8 * 60

\* fuel thresholds (hos.py 100-101)
FuelThresholds(dist, dur) ==
    [i \in 1 .. (dist \div fuel_every_miles) |->
        RoundHalfEven(i * fuel_every_miles * dur, dist)]

\* ---- construction (hos.py 58-78) -----------------------------------------
DurationInputs == 0 .. MaxDurEighths
CycleInputs == {0} \cup {8 * (70 - k) : k \in 0 .. MaxCycleBack}
DistanceInputs == {500 * m : m \in 0 .. MaxDistHalfK}
PrePickupInputs == {130 * p : p \in 0 .. MaxPrePickupSlot}
StartInputs == {8 * 60 + 390 * s : s \in 0 .. MaxStartSlot}

Init ==
    /\ duration_hr \in DurationInputs
    /\ current_cycle_used_hours \in CycleInputs
    /\ distance_mi \in DistanceInputs
    /\ start_dt \in StartInputs
    /\ \E p \in PrePickupInputs : pre_pickup_drive_min = Max2(0, p)
    /\ duration_min = MinutesOfHours(duration_hr)
    /\ cycle_used_min = MinutesOfHours(current_cycle_used_hours)
    /\ pc = "new"
    /\ segments = << >>
    /\ stops = << >>
    /\ cursor = 0
    /\ driving_left_min = 0
    /\ driven_min = 0
    /\ drive_since_break_min = 0
    /\ fuel_drive_threshold_mins = << >>
    /\ day_window_used = 0
    /\ day_drive_used = 0
    /\ pickup_done = FALSE
    /\ days = << >>
    /\ stops_sorted = << >>
    /\ returned = << >>

\* ---- plan(): prelude (hos.py 81-112) -------------------------------------
PlanBegin ==
    /\ pc = "new"
    /\ pc' = "loop"
    /\ driving_left_min' = duration_min
    /\ driven_min' = 0
    /\ drive_since_break_min' = 0
    /\ fuel_drive_threshold_mins' = FuelThresholds(distance_mi, duration_min)
    /\ day_drive_used' = 0
    /\ pickup_done' = (pre_pickup_drive_min = 0)
    /\ IF pre_pickup_drive_min = 0
       THEN /\ segments' = SegmentsAfterAdd(<< >>, start_dt, 60, ON_DUTY, "Pickup")
            /\ stops' = StopsAfterAdd(<< >>, start_dt, 60, "Pickup")
            /\ cycle_used_min' = CycleAfterAdd(cycle_used_min, 60, ON_DUTY)
            /\ cursor' = start_dt + 60
            /\ day_window_used' = 60
       ELSE /\ segments' = << >>
            /\ stops' = << >>
            /\ cycle_used_min' = cycle_used_min
            /\ cursor' = start_dt
            /\ day_window_used' = 0
    /\ UNCHANGED <<inputs, days, stops_sorted, returned>>

\* ---- plan(): the scheduling loop (hos.py 126-204) -----------------------
\* the loop test with >= in place of >
InLoop_Inclusive == pc = "loop" /\ driving_left_min >= 0

\* while driving_left_min > 0 (hos.py 126)
InLoop == pc = "loop" /\ driving_left_min > 0

PickupDue == (~pickup_done) /\ driven_min >= pre_pickup_drive_min
CycleExhausted == cycle_used_min >= CYCLE_MAX_MIN
BreakDue == drive_since_break_min >= BREAK_AFTER_DRIVE_MIN
DayExhausted ==
    day_window_used >= DAY_WINDOW_MIN \/ day_drive_used >= DAY_DRIVE_MAX_MIN

\* hos.py 128-133
LoopPickup ==
    /\ segments' = SegmentsAfterAdd(segments, cursor, 60, ON_DUTY, "Pickup")
    /\ stops' = StopsAfterAdd(stops, cursor, 60, "Pickup")
    /\ cycle_used_min' = CycleAfterAdd(cycle_used_min, 60, ON_DUTY)
    /\ cursor' = cursor + 60
    /\ day_window_used' = day_window_used + 60
    /\ pickup_done' = TRUE
    /\ UNCHANGED <<inputs, pc, driving_left_min, driven_min, drive_since_break_min,
                   fuel_drive_threshold_mins, day_drive_used, days, stops_sorted, returned>>

\* LoopRestart without the three counter resets of hos.py 140-143
LoopRestart_KeepCounters ==
    /\ segments' = SegmentsAfterAdd(segments, cursor, CYCLE_RESET_MIN, OFF, "34h Restart")
    /\ stops' = StopsAfterAdd(stops, cursor, CYCLE_RESET_MIN, "34h Restart")
    /\ cycle_used_min' = 0
    /\ cursor' = start_new_day(cursor + CYCLE_RESET_MIN)
    /\ UNCHANGED <<inputs, pc, driving_left_min, driven_min, drive_since_break_min,
                   day_window_used, day_drive_used,
                   fuel_drive_threshold_mins, pickup_done, days, stops_sorted, returned>>

\* hos.py 136-144
LoopRestart ==
    /\ segments' = SegmentsAfterAdd(segments, cursor, CYCLE_RESET_MIN, OFF, "34h Restart")
    /\ stops' = StopsAfterAdd(stops, cursor, CYCLE_RESET_MIN, "34h Restart")
    /\ cycle_used_min' = 0
    /\ drive_since_break_min' = 0
    /\ cursor' = start_new_day(cursor + CYCLE_RESET_MIN)
    /\ day_window_used' = 0
    /\ day_drive_used' = 0
    /\ UNCHANGED <<inputs, pc, driving_left_min, driven_min,
                   fuel_drive_threshold_mins, pickup_done, days, stops_sorted, returned>>

\* LoopBreak without drive_since_break_min = 0 of hos.py 151
LoopBreak_NoClear ==
    /\ segments' = SegmentsAfterAdd(segments, cursor, BREAK_BLOCK_MIN, OFF, "30m Break")
    /\ stops' = StopsAfterAdd(stops, cursor, BREAK_BLOCK_MIN, "30m Break")
    /\ cycle_used_min' = CycleAfterAdd(cycle_used_min, BREAK_BLOCK_MIN, OFF)
    /\ cursor' = cursor + BREAK_BLOCK_MIN
    /\ day_window_used' = day_window_used + BREAK_BLOCK_MIN
    /\ UNCHANGED <<inputs, pc, driving_left_min, driven_min, drive_since_break_min,
                   fuel_drive_threshold_mins, day_drive_used, pickup_done, days,
                   stops_sorted, returned>>

\* hos.py 147-152
LoopBreak ==
    /\ segments' = SegmentsAfterAdd(segments, cursor, BREAK_BLOCK_MIN, OFF, "30m Break")
    /\ stops' = StopsAfterAdd(stops, cursor, BREAK_BLOCK_MIN, "30m Break")
    /\ cycle_used_min' = CycleAfterAdd(cycle_used_min, BREAK_BLOCK_MIN, OFF)
    /\ cursor' = cursor + BREAK_BLOCK_MIN
    /\ day_window_used' = day_window_used + BREAK_BLOCK_MIN
    /\ drive_since_break_min' = 0
    /\ UNCHANGED <<inputs, pc, driving_left_min, driven_min,
                   fuel_drive_threshold_mins, day_drive_used, pickup_done, days,
                   stops_sorted, returned>>

\* hos.py 155-157 with end_day_and_reset (hos.py 117-124)
LoopReset ==
    /\ segments' = SegmentsAfterAdd(segments, cursor, OFF_DUTY_RESET_MIN, OFF,
                                    "Off Duty (reset)")
    /\ stops' = StopsAfterAdd(stops, cursor, OFF_DUTY_RESET_MIN, "Off Duty (reset)")
    /\ cycle_used_min' = CycleAfterAdd(cycle_used_min, OFF_DUTY_RESET_MIN, OFF)
    /\ drive_since_break_min' = 0
    /\ cursor' = start_new_day(cursor + OFF_DUTY_RESET_MIN)
    /\ day_window_used' = 0
    /\ day_drive_used' = 0
    /\ UNCHANGED <<inputs, pc, driving_left_min, driven_min,
                   fuel_drive_threshold_mins, pickup_done, days, stops_sorted, returned>>

\* Chunk without the closing min(chunk, driving_left_min) of hos.py 163
Chunk_NoFinalCap(ddu, dwu, dsb, left) ==
    LET drive_room_today == Min2(DAY_DRIVE_MAX_MIN - ddu, DAY_WINDOW_MIN - dwu)
        drive_until_break == BREAK_AFTER_DRIVE_MIN - dsb
        c1 == Min2(Min2(drive_room_today, drive_until_break), left)
    IN  Max2(15, c1)

\* Chunk without drive_until_break of hos.py 160 in the minimum
Chunk_NoBreakCap(ddu, dwu, dsb, left) ==
    LET drive_room_today == Min2(DAY_DRIVE_MAX_MIN - ddu, DAY_WINDOW_MIN - dwu)
        c1 == Min2(drive_room_today, left)
        c2 == Max2(15, c1)
    IN  Min2(c2, left)

\* hos.py 159-163
Chunk(ddu, dwu, dsb, left) ==
    LET drive_room_today == Min2(DAY_DRIVE_MAX_MIN - ddu, DAY_WINDOW_MIN - dwu)
        drive_until_break == BREAK_AFTER_DRIVE_MIN - dsb
        c1 == Min2(Min2(drive_room_today, drive_until_break), left)
        c2 == Max2(15, c1)
    IN  Min2(c2, left)

\* the last threshold inside the chunk instead of the first
NextThreshold_Last(thresholds, driven, chunk) ==
    LET hits == {i \in DOMAIN thresholds :
                    driven < thresholds[i] /\ thresholds[i] <= driven + chunk}
    IN  IF hits = {} THEN << >>
        ELSE <<thresholds[CHOOSE i \in hits : \A j \in hits : j <= i]>>

\* a threshold equal to driven_min counts as still ahead
NextThreshold_Inclusive(thresholds, driven, chunk) ==
    LET hits == {i \in DOMAIN thresholds :
                    driven <= thresholds[i] /\ thresholds[i] <= driven + chunk}
    IN  IF hits = {} THEN << >>
        ELSE <<thresholds[CHOOSE i \in hits : \A j \in hits : i <= j]>>

\* hos.py 166-170: the first fuel threshold inside (driven, driven + chunk],
\* as a sequence of length 0 (None) or 1
NextThreshold(thresholds, driven, chunk) ==
    LET hits == {i \in DOMAIN thresholds :
                    driven < thresholds[i] /\ thresholds[i] <= driven + chunk}
    IN  IF hits = {} THEN << >>
        ELSE <<thresholds[CHOOSE i \in hits : \A j \in hits : i <= j]>>

\* hos.py 172-174: << >> (None) or <<pre_pickup_drive_min>>
PickupThreshold(done, pre, driven, chunk) ==
    IF (~done) /\ driven < pre /\ pre <= driven + chunk THEN <<pre>> ELSE << >>

\* the later of the two thresholds instead of the earlier
SplitAt_Max(next_threshold, pickup_threshold) ==
    LET xs == next_threshold \o pickup_threshold
    IN  IF xs = << >> THEN << >>
        ELSE IF Len(xs) = 1 THEN xs
        ELSE <<Max2(xs[1], xs[2])>>

\* hos.py 176: min of the thresholds that are not None, << >> for None
SplitAt(next_threshold, pickup_threshold) ==
    LET xs == next_threshold \o pickup_threshold
    IN  IF xs = << >> THEN << >>
        ELSE IF Len(xs) = 1 THEN xs
        ELSE <<Min2(xs[1], xs[2])>>

\* the values computed at hos.py 159-176 in the current state
CurrentChunk ==
    Chunk(day_drive_used, day_window_used, drive_since_break_min, driving_left_min)

CurrentNextThreshold ==
    NextThreshold(fuel_drive_threshold_mins, driven_min, CurrentChunk)

CurrentPickupThreshold ==
    PickupThreshold(pickup_done, pre_pickup_drive_min, driven_min, CurrentChunk)

CurrentSplitAt == SplitAt(CurrentNextThreshold, CurrentPickupThreshold)

\* hos.py 177-195
LoopDriveSplit ==
    LET drive_first == CurrentSplitAt[1] - driven_min
        isPickup == CurrentPickupThreshold # << >>
                    /\ CurrentSplitAt = CurrentPickupThreshold
        label == IF isPickup THEN "Pickup" ELSE "Fuel"
        block == IF isPickup THEN 60 ELSE fuel_block_min
        segs1 == SegmentsAfterAdd(segments, cursor, drive_first, DRIVING, "")
        stops1 == StopsAfterAdd(stops, cursor, drive_first, "")
        cycle1 == CycleAfterAdd(cycle_used_min, drive_first, DRIVING)
    IN  /\ segments' = SegmentsAfterAdd(segs1, cursor + drive_first, block,
                                        ON_DUTY, label)
        /\ stops' = StopsAfterAdd(stops1, cursor + drive_first, block, label)
        /\ cycle_used_min' = CycleAfterAdd(cycle1, block, ON_DUTY)
        /\ cursor' = cursor + drive_first + block
        /\ day_window_used' = day_window_used + drive_first + block
        /\ day_drive_used' = day_drive_used + drive_first
        /\ drive_since_break_min' = drive_since_break_min + drive_first
        /\ driving_left_min' = driving_left_min - drive_first
        /\ driven_min' = driven_min + drive_first
        /\ pickup_done' = IF isPickup THEN TRUE ELSE pickup_done
        /\ UNCHANGED <<inputs, pc, fuel_drive_threshold_mins, days, stops_sorted, returned>>

\* hos.py 197-204
LoopDrive ==
    LET chunk == CurrentChunk
    IN  /\ segments' = SegmentsAfterAdd(segments, cursor, chunk, DRIVING, "")
        /\ stops' = StopsAfterAdd(stops, cursor, chunk, "")
        /\ cycle_used_min' = CycleAfterAdd(cycle_used_min, chunk, DRIVING)
        /\ cursor' = cursor + chunk
        /\ day_window_used' = day_window_used + chunk
        /\ day_drive_used' = day_drive_used + chunk
        /\ drive_since_break_min' = drive_since_break_min + chunk
        /\ driving_left_min' = driving_left_min - chunk
        /\ driven_min' = driven_min + chunk
        /\ UNCHANGED <<inputs, pc, fuel_drive_threshold_mins, pickup_done, days,
                       stops_sorted, returned>>

\* One pass through the body of `while driving_left_min > 0` (hos.py 126-204):
\* the branches are tried in source order and the first that matches runs,
\* each ending the pass (continue).
LoopIteration ==
    /\ InLoop
    /\ IF PickupDue THEN LoopPickup
       ELSE IF CycleExhausted THEN LoopRestart
       ELSE IF BreakDue THEN LoopBreak
       ELSE IF DayExhausted THEN LoopReset
       ELSE IF CurrentSplitAt # << >> THEN LoopDriveSplit
       ELSE LoopDrive

\* ---- plan(): Drop, day grouping, stop ordering (hos.py 206-220) ----------
DateOf(t) == t \div 1440

RECURSIVE SortedDates(_)
\* sorted(day_map.keys())
SortedDates(ds) ==
    IF ds = {} THEN << >>
    ELSE LET d == CHOOSE x \in ds : \A y \in ds : x <= y
         IN  <<d>> \o SortedDates(ds \ {d})

\* hos.py 212-218
GroupDays(segs) ==
    LET keys == SortedDates({DateOf(segs[i].start) : i \in DOMAIN segs})
    IN  [k \in DOMAIN keys |->
            [date |-> keys[k],
             segments |-> SelectSeq(segs, LAMBDA s : DateOf(s.start) = keys[k])]]

\* insertion of x behind every element whose eta is <= x.eta (stable)
InsertByEta(sorted, x) ==
    LET n == Cardinality({i \in DOMAIN sorted : sorted[i].eta <= x.eta})
    IN  SubSeq(sorted, 1, n) \o <<x>> \o SubSeq(sorted, n + 1, Len(sorted))

\* the emission order, left as it is
SortStops_Unsorted(stps) == stps

RECURSIVE SortStops(_)
\* sorted(stops, key=lambda s: s.eta) (hos.py 220)
SortStops(stps) ==
    IF stps = << >> THEN << >>
    ELSE InsertByEta(SortStops(SubSeq(stps, 1, Len(stps) - 1)), stps[Len(stps)])

\* the value plan() returns (hos.py 222-230): the route echo, the sorted stops
\* and the day plans
PlanResult(stps, dys) ==
    [route |-> [distance_mi |-> distance_mi, duration_min |-> duration_min],
     stops |-> stps,
     days |-> dys]

PlanEnd ==
    /\ pc = "loop"
    /\ ~InLoop
    /\ pc' = "done"
    /\ segments' = SegmentsAfterAdd(segments, cursor, 60, ON_DUTY, "Drop")
    /\ stops' = StopsAfterAdd(stops, cursor, 60, "Drop")
    /\ cycle_used_min' = CycleAfterAdd(cycle_used_min, 60, ON_DUTY)
    /\ cursor' = cursor + 60
    /\ day_window_used' = day_window_used + 60
    /\ days' = GroupDays(segments')
    /\ stops_sorted' = SortStops(stops')
    /\ returned' = Append(returned, PlanResult(stops_sorted', days'))
    /\ UNCHANGED <<inputs, driving_left_min, driven_min, drive_since_break_min,
                   fuel_drive_threshold_mins, day_drive_used, pickup_done>>

Next ==
    \/ PlanBegin
    \/ LoopIteration
    \/ PlanEnd

Spec == Init /\ [][Next]_vars

\* ---- construction with an infeasible argument (hos.py 58-65) -------------
\* __init__ converts whatever it is given: it has no check and no error exit.
Infeasible ==
    \/ distance_mi < 0
    \/ duration_hr < 0
    \/ current_cycle_used_hours > 8 * 70

InfeasibleDurations == {0 - 8 * k : k \in 1 .. MaxInfeasible}
InfeasibleCycles == {8 * (70 + k) : k \in 1 .. MaxInfeasible}
InfeasibleDistances == {0 - 500 * k : k \in 1 .. MaxInfeasible}

InitInfeasible ==
    /\ duration_hr \in InfeasibleDurations \cup {0, 8, 48, 96}
    /\ current_cycle_used_hours \in InfeasibleCycles \cup CycleInputs
    /\ distance_mi \in InfeasibleDistances \cup {0, 1000}
    /\ Infeasible
    /\ start_dt \in StartInputs
    /\ \E p \in PrePickupInputs : pre_pickup_drive_min = Max2(0, p)
    /\ duration_min = MinutesOfHours(duration_hr)
    /\ cycle_used_min = MinutesOfHours(current_cycle_used_hours)
    /\ pc = "new"
    /\ segments = << >>
    /\ stops = << >>
    /\ cursor = 0
    /\ driving_left_min = 0
    /\ driven_min = 0
    /\ drive_since_break_min = 0
    /\ fuel_drive_threshold_mins = << >>
    /\ day_window_used = 0
    /\ day_drive_used = 0
    /\ pickup_done = FALSE
    /\ days = << >>
    /\ stops_sorted = << >>
    /\ returned = << >>

SpecInfeasible == InitInfeasible /\ [][Next]_vars

\* ---- a further call of plan() on the same planner (hos.py 80-112) --------
\* plan() starts again from the fields of self; its locals are fresh and
\* self.cycle_used_min is what the previous call left.
PlanAgain ==
    /\ pc = "done"
    /\ Len(returned) < MaxCalls
    /\ pc' = "new"
    /\ segments' = << >>
    /\ stops' = << >>
    /\ cursor' = 0
    /\ driving_left_min' = 0
    /\ driven_min' = 0
    /\ drive_since_break_min' = 0
    /\ fuel_drive_threshold_mins' = << >>
    /\ day_window_used' = 0
    /\ day_drive_used' = 0
    /\ pickup_done' = FALSE
    /\ days' = << >>
    /\ stops_sorted' = << >>
    /\ UNCHANGED <<inputs, cycle_used_min, returned>>

NextRepeated ==
    \/ PlanBegin
    \/ LoopIteration
    \/ PlanEnd
    \/ PlanAgain

SpecRepeated == Init /\ [][NextRepeated]_vars

\* ==== properties of the emitted plan =====================================
Dur(s) == s.end - s.start

IsReset(s) == s.label \in {"Off Duty (reset)", "34h Restart"}

RECURSIVE SumDur(_, _, _, _)
\* minutes of the segments segs[lo..hi] whose status is in `statuses`
SumDur(segs, lo, hi, statuses) ==
    IF lo > hi THEN 0
    ELSE (IF segs[hi].status \in statuses THEN Dur(segs[hi]) ELSE 0)
         + SumDur(segs, lo, hi - 1, statuses)

CountLabel(segs, label) == Cardinality({i \in DOMAIN segs : segs[i].label = label})

\* index of the last reset / restart segment before i, 0 if none
LastResetBefore(segs, i) ==
    LET rs == {j \in 1 .. (i - 1) : IsReset(segs[j])}
    IN  IF rs = {} THEN 0 ELSE CHOOSE j \in rs : \A k \in rs : k <= j

\* index of the last '34h Restart' before i, 0 if none
LastRestartBefore(segs, i) ==
    LET rs == {j \in 1 .. (i - 1) : segs[j].label = "34h Restart"}
    IN  IF rs = {} THEN 0 ELSE CHOOSE j \in rs : \A k \in rs : k <= j

\* driving minutes of segment i's workday up to and including segment i
WorkdayDrivingUpTo(segs, i) ==
    SumDur(segs, LastResetBefore(segs, i) + 1, i, {DRIVING})

\* wall-clock span from the first segment of segment i's workday to the end
\* of segment i
WorkdaySpanUpTo(segs, i) == segs[i].end - segs[LastResetBefore(segs, i) + 1].start

\* cycle minutes logged at the end of segment i: the initial cycle minutes
\* unless a restart precedes i, plus the DRIVING and ON_DUTY minutes since
CycleAtEndOf(segs, i) ==
    LET r == LastRestartBefore(segs, i)
    IN  (IF r = 0 THEN MinutesOfHours(current_cycle_used_hours) ELSE 0)
        + SumDur(segs, r + 1, i, {DRIVING, ON_DUTY})

\* driving minutes accumulated at the end of segment i since the last
\* non-driving segment of at least 30 minutes
DrivingRunUpTo(segs, i) ==
    LET qs == {j \in 1 .. (i - 1) : segs[j].status # DRIVING /\ Dur(segs[j]) >= 30}
        q == IF qs = {} THEN 0 ELSE CHOOSE j \in qs : \A k \in qs : k <= j
    IN  SumDur(segs, q + 1, i, {DRIVING})

DrivingIndices(segs) == {i \in DOMAIN segs : segs[i].status = DRIVING}
NonResetIndices(segs) == {i \in DOMAIN segs : ~IsReset(segs[i])}

\* C1: no workday of the plan contains more than 660 minutes of DRIVING,
\* a workday being a maximal run of segments between two reset / restart
\* segments.
C1_WorkdayDrivingAtMost660 ==
    \A i \in DOMAIN segments : WorkdayDrivingUpTo(segments, i) <= 660

\* C2: the emitted segments are non-decreasing in time in emission order:
\* segment[i].end <= segment[i+1].start for every consecutive pair.
C2_SegmentsMonotone ==
    \A i \in 1 .. (Len(segments) - 1) : segments[i].end <= segments[i + 1].start

\* C3: the plan holds exactly one '34h Restart' if the initial cycle minutes
\* plus all DRIVING and ON_DUTY minutes of the plan exceed 4200, and none
\* otherwise.
C3_RestartIffCycleExceeded ==
    pc = "done" =>
        CountLabel(segments, "34h Restart") =
            (IF MinutesOfHours(current_cycle_used_hours)
                  + SumDur(segments, 1, Len(segments), {DRIVING, ON_DUTY}) > 4200
             THEN 1 ELSE 0)

\* C4: at the end of every emitted DRIVING segment the cycle minutes (initial
\* minutes plus DRIVING and ON_DUTY minutes since the last '34h Restart') are
\* at most 4200.
C4_CycleAtMost4200WhenDriving ==
    \A i \in DrivingIndices(segments) : CycleAtEndOf(segments, i) <= 4200

\* C5: the finished plan holds exactly one 'Pickup' and exactly one 'Drop',
\* the Pickup before the Drop, and the Drop is the last segment.
C5_OnePickupOneDrop ==
    pc = "done" =>
        /\ CountLabel(segments, "Pickup") = 1
        /\ CountLabel(segments, "Drop") = 1
        /\ \A i, j \in DOMAIN segments :
              segments[i].label = "Pickup" /\ segments[j].label = "Drop" => i < j
        /\ segments[Len(segments)].label = "Drop"

\* C6: the number of 'Fuel' segments, and of stops of type 'fuel', equals
\* floor(distance_mi / 1000).
C6_FuelCount ==
    pc = "done" =>
        /\ CountLabel(segments, "Fuel") = distance_mi \div 1000
        /\ Cardinality({i \in DOMAIN stops_sorted : stops_sorted[i].type = "fuel"})
             = distance_mi \div 1000

\* C7: driving_left_min + driven_min = duration_min in every state of the
\* loop, driving_left_min is never negative, and the DRIVING minutes emitted
\* are driven_min; in the finished plan they add up to
\* duration_min = round(duration_hr * 60).
C7_DrivingSumIsDuration ==
    /\ driving_left_min >= 0
    /\ SumDur(segments, 1, Len(segments), {DRIVING}) = driven_min
    /\ pc # "new" => driving_left_min + driven_min = duration_min
    /\ pc = "done" =>
          SumDur(segments, 1, Len(segments), {DRIVING}) = RoundHalfEven(duration_hr * 60, 8)

\* a finished plan whose duration was rounded from a half minute and whose
\* driving was emitted in several pieces around a split, a break and a reset
C7_Witness ==
    /\ pc = "done"
    /\ duration_hr % 2 = 1
    /\ CountLabel(segments, "Fuel") >= 1
    /\ CountLabel(segments, "30m Break") >= 1
    /\ CountLabel(segments, "Off Duty (reset)") >= 1
    /\ SumDur(segments, 1, Len(segments), {DRIVING}) = duration_min
    /\ duration_min > DAY_DRIVE_MAX_MIN

\* the conditions that select a non-driving branch, weighted by the priority
\* of the branch: a branch may raise a condition of lower priority only
C8_Pending ==
    (IF PickupDue THEN 8 ELSE 0) + (IF CycleExhausted THEN 4 ELSE 0)
    + (IF BreakDue THEN 2 ELSE 0) + (IF DayExhausted THEN 1 ELSE 0)

C8_PassMakesProgress ==
    \/ driving_left_min' < driving_left_min
    \/ PickupDue /\ ~PickupDue'
    \/ ~PickupDue /\ CycleExhausted /\ ~CycleExhausted'
    \/ ~PickupDue /\ ~CycleExhausted /\ BreakDue /\ ~BreakDue'
    \/ ~PickupDue /\ ~CycleExhausted /\ ~BreakDue /\ DayExhausted /\ ~DayExhausted'

\* C8: the loop terminates with driving_left_min = 0 and the Drop is then
\* emitted.  Every pass of the loop either strictly decreases
\* driving_left_min or clears the condition (pickup pending, cycle exhausted,
\* break due, day exhausted) that selected its branch; driving_left_min never
\* goes below 0 and a pass that leaves it unchanged lowers the weight of the
\* pending conditions, so only finitely many passes exist; and the loop is
\* left only with driving_left_min = 0, the Drop being emitted last.
C8_LoopTerminates ==
    [][/\ InLoop =>
            /\ C8_PassMakesProgress
            /\ driving_left_min' >= 0
            /\ \/ driving_left_min' < driving_left_min
               \/ driving_left_min' = driving_left_min /\ C8_Pending' < C8_Pending
       /\ (pc = "loop" /\ ~InLoop) =>
            /\ pc' = "done"
            /\ driving_left_min' = 0
            /\ segments'[Len(segments')].label = "Drop"]_vars

\* a finished plan whose loop went through a restart, a break and a daily
\* reset as well as driving
C8_Witness ==
    /\ pc = "done"
    /\ driving_left_min = 0
    /\ segments[Len(segments)].label = "Drop"
    /\ CountLabel(segments, "34h Restart") >= 1
    /\ CountLabel(segments, "30m Break") >= 1
    /\ CountLabel(segments, "Off Duty (reset)") >= 1

\* C9: in no workday does the span from its first non-reset segment to its
\* last non-reset segment exceed 840 minutes.
C9_WorkdaySpanAtMost840 ==
    \A i \in NonResetIndices(segments) : WorkdaySpanUpTo(segments, i) <= 840

\* C10: at the end of every DRIVING segment the driving minutes accumulated
\* since the last non-driving segment of at least 30 minutes are at most 480.
C10_DrivingRunAtMost480 ==
    \A i \in DrivingIndices(segments) : DrivingRunUpTo(segments, i) <= 480

\* a DRIVING segment that ends with exactly 480 accumulated minutes and is
\* followed by the mandatory break
C10_Witness ==
    \E i \in DrivingIndices(segments) :
        /\ DrivingRunUpTo(segments, i) = 480
        /\ i < Len(segments)
        /\ segments[i + 1].label = "30m Break"

\* C11: constructing and planning with a negative distance, a negative
\* duration or more than 70 cycle hours ends in an error before any segment
\* is emitted: no segment exists and no plan is returned.
C11_InfeasibleRejected ==
    Infeasible => segments = << >> /\ returned = << >> /\ pc # "done"

\* C12: a second call of plan() on the same planner returns what the first
\* call returned.
C12_SecondCallSameOutput ==
    Len(returned) >= 2 => returned[2] = returned[1]

\* the stop a labeled segment stands for
StopOfSegment(s) ==
    [type |-> CASE s.label = "Pickup" -> "pickup"
                [] s.label = "Drop" -> "drop"
                [] s.label = "Fuel" -> "fuel"
                [] s.label = "30m Break" -> "break",
     eta |-> s.start,
     duration_min |-> s.end - s.start]

Occurrences(seq, x) == Cardinality({i \in DOMAIN seq : seq[i] = x})

\* C13: the returned stops are in ETA-ascending order and correspond one to
\* one to the emitted segments labeled Pickup, Drop, Fuel or 30m Break, each
\* stop carrying its segment's start as eta and its segment's duration;
\* resets, restarts and unlabeled DRIVING segments have no stop.
C13_StopsMatchSegments ==
    pc = "done" =>
        LET labeled == SelectSeq(segments,
                                 LAMBDA s : s.label \in {"Pickup", "Drop", "Fuel", "30m Break"})
            expected == [i \in DOMAIN labeled |-> StopOfSegment(labeled[i])]
        IN  /\ \A i, j \in DOMAIN stops_sorted :
                  i < j => stops_sorted[i].eta <= stops_sorted[j].eta
            /\ Len(stops_sorted) = Len(expected)
            /\ \A i \in DOMAIN expected :
                  Occurrences(stops_sorted, expected[i]) = Occurrences(expected, expected[i])

\* a finished plan with all four kinds of stop in which a reset moved the
\* clock back, so that the stops were not emitted in ETA order
C13_Witness ==
    /\ pc = "done"
    /\ stops_sorted # stops
    /\ \A t \in {"pickup", "drop", "fuel", "break"} :
          \E i \in DOMAIN stops_sorted : stops_sorted[i].type = t
    /\ CountLabel(segments, "Off Duty (reset)") >= 1

\* indices of the 'Pickup' segments
PickupIndices(segs) == {i \in DOMAIN segs : segs[i].label = "Pickup"}

\* C14: with pre_pickup_drive_min = 0 the Pickup is the first segment and
\* starts at start_dt; with 0 < pre_pickup_drive_min <= duration_min the
\* Pickup directly follows a DRIVING segment and the DRIVING minutes emitted
\* before it are exactly pre_pickup_drive_min, whatever breaks, fuel stops,
\* resets or restarts came earlier; in both cases the finished plan has it.
C14_PickupPlacement ==
    /\ pre_pickup_drive_min = 0 /\ segments # << >> =>
          /\ segments[1].label = "Pickup"
          /\ segments[1].start = start_dt
          /\ PickupIndices(segments) = {1}
    /\ 0 < pre_pickup_drive_min /\ pre_pickup_drive_min <= duration_min =>
          /\ \A p \in PickupIndices(segments) :
                /\ p > 1
                /\ segments[p - 1].status = DRIVING
                /\ SumDur(segments, 1, p - 1, {DRIVING}) = pre_pickup_drive_min
          /\ pc = "done" => Cardinality(PickupIndices(segments)) = 1

\* a finished plan whose Pickup comes after a fuel stop, a 30-minute break
\* and more than 480 minutes of driving
C14_Witness ==
    /\ pc = "done"
    /\ pre_pickup_drive_min > BREAK_AFTER_DRIVE_MIN
    /\ \E p \in PickupIndices(segments) :
          /\ \E i \in 1 .. (p - 1) : segments[i].label = "Fuel"
          /\ \E i \in 1 .. (p - 1) : segments[i].label = "30m Break"
          /\ segments[p - 1].status = DRIVING

\* indices of the 'Fuel' segments, and the DRIVING minutes emitted before one
FuelIndices(segs) == {i \in DOMAIN segs : segs[i].label = "Fuel"}
DrivenBefore(segs, i) == SumDur(segs, 1, i - 1, {DRIVING})

\* C15: every Fuel directly follows a DRIVING segment and is emitted when the
\* DRIVING minutes so far equal a fuel threshold
\* round(k * 1000 / distance_mi * duration_min); two Fuel segments never sit
\* at the same threshold; and in the finished plan the driving minutes at
\* which Fuel occurs are a function of distance, duration and
\* pre_pickup_drive_min alone, so the breaks, resets and restarts brought in
\* by the initial cycle hours or the start instant do not move them.
C15_FuelPlacement ==
    LET ts == FuelThresholds(distance_mi, duration_min)
        tset == {ts[k] : k \in DOMAIN ts}
    IN  /\ \A f \in FuelIndices(segments) :
              /\ f > 1
              /\ segments[f - 1].status = DRIVING
              /\ DrivenBefore(segments, f) \in tset
              /\ DrivenBefore(segments, f) = driven_min \/ f < Len(segments)
        /\ \A f, g \in FuelIndices(segments) :
              f # g => DrivenBefore(segments, f) # DrivenBefore(segments, g)
        /\ pc = "done" =>
              {DrivenBefore(segments, f) : f \in FuelIndices(segments)}
                  = {t \in tset : t > 0 /\ t # pre_pickup_drive_min}

\* a finished plan with two fuel stops, a 34-hour restart before the first
\* and a daily reset and a 30-minute break before the second
C15_Witness ==
    /\ pc = "done"
    /\ Cardinality(FuelIndices(segments)) = 2
    /\ \E f \in FuelIndices(segments) :
          \E i \in 1 .. (f - 1) : segments[i].label = "34h Restart"
    /\ \E f \in FuelIndices(segments) :
          /\ \E i \in 1 .. (f - 1) : segments[i].label = "Off Duty (reset)"
          /\ \E i \in 1 .. (f - 1) : segments[i].label = "30m Break"

\* C16: every emitted segment lasts a strictly positive whole number of
\* minutes (end > start), the DRIVING segments in front of a fuel or pickup
\* split and the last DRIVING chunk of under 15 minutes included.
C16_PositiveDurations ==
    \A i \in DOMAIN segments :
        /\ segments[i].start \in Int
        /\ segments[i].end \in Int
        /\ segments[i].end > segments[i].start

\* a finished plan whose last DRIVING segment is shorter than 15 minutes and
\* which has a DRIVING segment cut by the pickup and one cut by a fuel stop
C16_Witness ==
    /\ pc = "done"
    /\ \E i \in DOMAIN segments :
          /\ segments[i].status = DRIVING
          /\ Dur(segments[i]) < 15
          /\ segments[i + 1].label = "Drop"
    /\ \E p \in PickupIndices(segments) : p > 1
    /\ FuelIndices(segments) # {}

\* C17: the DayPlans partition the emitted segments by start date: every
\* segment is in exactly one DayPlan, the one of its start date; no DayPlan is
\* empty; the DayPlans are in ascending date order (their numbers 1..n are
\* their positions); and inside a DayPlan the segments are in non-decreasing
\* start order.
C17_DayGroupingChronological ==
    pc = "done" =>
        /\ \A i \in DOMAIN segments :
              Cardinality({k \in DOMAIN days :
                              Occurrences(days[k].segments, segments[i]) > 0}) = 1
        /\ \A i \in DOMAIN segments : \A k \in DOMAIN days :
              Occurrences(days[k].segments, segments[i]) > 0 =>
                  /\ days[k].date = DateOf(segments[i].start)
                  /\ Occurrences(days[k].segments, segments[i])
                         = Occurrences(segments, segments[i])
        /\ \A k \in DOMAIN days :
              /\ days[k].segments # << >>
              /\ \A i \in DOMAIN days[k].segments :
                    DateOf(days[k].segments[i].start) = days[k].date
              /\ \A i, j \in DOMAIN days[k].segments :
                    i < j => days[k].segments[i].start <= days[k].segments[j].start
        /\ \A k, l \in DOMAIN days : k < l => days[k].date < days[l].date

\* the non-driving blocks of at least 30 minutes
QualifyingBlock(s) ==
    s.label \in {"Pickup", "Fuel", "30m Break", "Off Duty (reset)", "34h Restart"}

\* DRIVING minutes in segs[1..i] after the last qualifying block before i
DrivingSinceBlock(segs, i) ==
    LET bs == {j \in 1 .. (i - 1) : QualifyingBlock(segs[j])}
        b == IF bs = {} THEN 0 ELSE CHOOSE j \in bs : \A k \in bs : k <= j
    IN  SumDur(segs, b + 1, i, {DRIVING})

\* C18: drive_since_break_min is 0 after every Pickup, Fuel, 30m Break,
\* Off Duty (reset) and 34h Restart, so a '30m Break' comes only when 480
\* minutes of driving have accumulated since the latest of these blocks.
C18_BreakCounterResetByEveryBlock ==
    /\ pc = "loop" /\ segments # << >> /\ QualifyingBlock(segments[Len(segments)])
           => drive_since_break_min = 0
    /\ \A i \in DOMAIN segments :
          segments[i].label = "30m Break" =>
              DrivingSinceBlock(segments, i) >= BREAK_AFTER_DRIVE_MIN

\* no '34h Restart' next to an 'Off Duty (reset)' or a '30m Break', and no
\* two 'Off Duty (reset)' next to each other
NoAdjacentRests(segs) ==
    \A i \in 1 .. (Len(segs) - 1) :
        LET a == segs[i].label
            b == segs[i + 1].label
        IN  /\ ~(a = "34h Restart" /\ b \in {"Off Duty (reset)", "30m Break"})
            /\ ~(b = "34h Restart" /\ a \in {"Off Duty (reset)", "30m Break"})
            /\ ~(a = "Off Duty (reset)" /\ b = "Off Duty (reset)")

\* one pass of the loop that starts with the cycle exhausted emits the
\* '34h Restart' and nothing else and clears the cycle, the break counter and
\* both day counters
C19_RestartPass ==
    InLoop /\ ~PickupDue /\ CycleExhausted =>
        /\ segments' = Append(segments, Segment(cursor, CYCLE_RESET_MIN, OFF, "34h Restart"))
        /\ cycle_used_min' = 0
        /\ drive_since_break_min' = 0
        /\ day_window_used' = 0
        /\ day_drive_used' = 0

\* C19: the restart has priority over the break, the day reset and the drive:
\* a pass that finds the cycle exhausted emits only the '34h Restart' and
\* clears the cycle, the break counter and both day counters, so that in the
\* emitted sequence a '34h Restart' is never next to an 'Off Duty (reset)' or
\* a '30m Break', and two 'Off Duty (reset)' are never next to each other.
C19_RestartPriority ==
    [][C19_RestartPass /\ NoAdjacentRests(segments) /\ NoAdjacentRests(segments')]_vars

\* a restart emitted by a pass in which the break was due as well: it follows
\* 480 minutes of uninterrupted driving and the next pass has driven on
C19_Witness ==
    \E i \in 2 .. (Len(segments) - 1) :
        /\ segments[i].label = "34h Restart"
        /\ segments[i - 1].status = DRIVING
        /\ DrivingRunUpTo(segments, i - 1) = BREAK_AFTER_DRIVE_MIN
        /\ segments[i + 1].status = DRIVING

\* the blocks the loop inserts to restore a limit
IsRest(s) == s.label \in {"30m Break", "Off Duty (reset)", "34h Restart"}

\* C20: a '30m Break', 'Off Duty (reset)' or '34h Restart' is emitted only
\* while driving remains: right after one the loop is still running with
\* driving_left_min > 0, in the finished plan each is followed later by a
\* DRIVING segment and the segment before the final Drop is DRIVING, Fuel or
\* Pickup; a trip of exactly 480 driving minutes has no break and a trip of
\* exactly 660 driving minutes has no reset.
C20_RestsOnlyWhileDrivingRemains ==
    /\ segments # << >> /\ IsRest(segments[Len(segments)]) =>
          pc = "loop" /\ driving_left_min > 0
    /\ pc = "done" =>
          /\ \A i \in DOMAIN segments :
                IsRest(segments[i]) =>
                    \E j \in (i + 1) .. Len(segments) : segments[j].status = DRIVING
          /\ segments[Len(segments)].label = "Drop"
          /\ Len(segments) >= 2 =>
                \/ segments[Len(segments) - 1].status = DRIVING
                \/ segments[Len(segments) - 1].label \in {"Fuel", "Pickup"}
          /\ duration_min = BREAK_AFTER_DRIVE_MIN =>
                CountLabel(segments, "30m Break") = 0
          /\ duration_min = DAY_DRIVE_MAX_MIN =>
                CountLabel(segments, "Off Duty (reset)") = 0

\* a finished trip of exactly 660 driving minutes: one break on the way, the
\* workday's driving limit reached by the last DRIVING segment, no reset
C20_Witness ==
    /\ pc = "done"
    /\ duration_min = DAY_DRIVE_MAX_MIN
    /\ day_drive_used = DAY_DRIVE_MAX_MIN
    /\ CountLabel(segments, "30m Break") = 1
    /\ CountLabel(segments, "Off Duty (reset)") = 0
    /\ segments[Len(segments) - 1].status = DRIVING

====
